---- MODULE Spec2Model ----
(***************************************************************************)
(* Model of src/app_health_checker.py: main(), the aggregation loop of     *)
(* ApplicationHealthChecker.check_all_endpoints and the retry loop of      *)
(* ApplicationHealthChecker.check_endpoint.                                *)
(*                                                                         *)
(* The HTTP client (requests.get), the clock (time.sleep) and the file     *)
(* system (open / json.dump) are collaborators: every fetch draws its      *)
(* result from FetchOutcomes, every sleep is recorded in `sleeps`, and the *)
(* write of latest_results.json either succeeds or raises OSError.         *)
(* datetime.now() timestamps are not modelled: no control flow reads them. *)
(***************************************************************************)
EXTENDS Integers, Sequences, FiniteSets, TLC

\* ---------------------------------------------------------------- bounds
MaxEndpoints == 2

\* ------------------------------------------------------ program constants
DEFAULT_TIMEOUT == 5
RETRY_ATTEMPTS == 3
RETRY_DELAY == 2
DEFAULT_EXPECTED_STATUS == 200

\* Python's None, as the value dict.get returns for a missing key and as the
\* value of a JSON null url.
None == "<None>"

\* Exit status of a process that has not exited yet.
Running == -1

\* -------------------------------------------------------- input universe
Urls == {"http://a", "http://b"}
UrlValues == Urls \cup {"", None}
ExpectedValues == {201}
Statuses == {200, 201, 500}
Descriptions == {"boom"}

\* A JSON object element {url?, expected_status?} is a function from the keys
\* that are present.  An element that is not an object carries the marker key
\* json_type (a number, a string, ...), and has no .get method.
ObjectElements ==
    { [k \in K |-> IF k = "url" THEN u ELSE s] :
        K \in SUBSET {"url", "expected_status"}, u \in UrlValues, s \in ExpectedValues }
NumberElem == [json_type |-> "number"]
StrElem == [json_type |-> "string"]
Elements == ObjectElements \cup {NumberElem}

SeqsUpTo(S, n) == UNION { [1..k -> S] : k \in 0..n }

\* Python values json.loads can return at top level.  Iterating a dict yields
\* its keys and iterating a str its characters: both are str objects.
PyValues ==
    { [py_type |-> "list", items |-> s] : s \in SeqsUpTo(Elements, MaxEndpoints) }
    \cup { [py_type |-> t, items |-> s] :
             t \in {"dict", "str"}, s \in SeqsUpTo({StrElem}, MaxEndpoints) }
    \cup { [py_type |-> "int", items |-> <<>>] }

ArgvInputs ==
    { [argc |-> 1, valid_json |-> FALSE, value |-> [py_type |-> "int", items |-> <<>>]] }
    \cup { [argc |-> 2, valid_json |-> FALSE, value |-> [py_type |-> "int", items |-> <<>>]] }
    \cup { [argc |-> 2, valid_json |-> TRUE, value |-> v] : v \in PyValues }

FetchOutcomes ==
    { [kind |-> "response", status_code |-> s, desc |-> ""] : s \in Statuses }
    \cup { [kind |-> "Timeout", status_code |-> 0, desc |-> ""],
           [kind |-> "ConnectionError", status_code |-> 0, desc |-> ""] }
    \cup { [kind |-> "Exception", status_code |-> 0, desc |-> d] : d \in Descriptions }

\* ------------------------------------------------------------------ state
VARIABLES
    sys_argv,       \* the command line
    pc,             \* position of the single thread
    endpoints,      \* main's `endpoints` / self.endpoints
    idx,            \* position of the for loop of check_all_endpoints (1-based)
    results,        \* the report check_all_endpoints builds
    origin,         \* history: input position of each entry of results.endpoints
    url,            \* arguments of the running check_endpoint call
    expected_status,
    attempt,        \* loop variable of check_endpoint (0-based)
    trace,          \* history: fetch outcomes of the check_endpoint call, until its
                    \* result is recorded
    sleeps,         \* history: durations slept by that call
    outcome,        \* the tuple check_endpoint returned
    fetches,        \* history: number of requests.get calls per input position
    is_healthy,     \* main's `is_healthy`
    results_file,   \* latest_results.json
    writes,         \* history: completed writes of latest_results.json
    exit_code,      \* process exit status
    crash,          \* exception that left main uncaught, or "none"
    log,            \* history: log lines of the check_endpoint call, until its
                    \* result is recorded
    program,        \* which of the two scripts this process runs
    mon_samples,    \* system monitor, history: the values the samplers read
    mon_results,    \* system monitor: generate_report's `results`, in dict order
    mon_error,      \* system monitor: sampler whose psutil call raised, or "none"
    mon_top_errors, \* system monitor: errors get_top_processes caught and logged
    mon_success,    \* system monitor: `all_ok` / `success`
    mon_failed      \* system monitor: `failed`, the names listed in the summary

mon_vars == << program, mon_samples, mon_results, mon_error, mon_top_errors,
               mon_success, mon_failed >>

vars == << sys_argv, pc, endpoints, idx, results, origin, url, expected_status,
           attempt, trace, sleeps, outcome, fetches, is_healthy, results_file,
           writes, exit_code, crash, log, program, mon_samples, mon_results,
           mon_error, mon_top_errors, mon_success, mon_failed >>

\* ---------------------------------------------------------------- helpers
Get(d, k, default) == IF k \in DOMAIN d THEN d[k] ELSE default

IsDict(e) == "json_type" \notin DOMAIN e

Truthy(u) == u # None /\ u # ""

Iterable(v) == v.py_type # "int"

DefaultEndpoints ==
    [py_type |-> "list",
     items |-> << [url |-> "http://localhost:8080", expected_status |-> 200],
                  [url |-> "http://localhost:4499", expected_status |-> 200],
                  [url |-> "https://www.google.com", expected_status |-> 200] >>]

NoReport ==
    [endpoints |-> <<>>, overall_status |-> "NONE", healthy_count |-> 0, unhealthy_count |-> 0]

NewReport ==
    [endpoints |-> <<>>, overall_status |-> "UP", healthy_count |-> 0, unhealthy_count |-> 0]

NoOutcome == [is_healthy |-> FALSE, status_code |-> 0, message |-> ""]

RECURSIVE Sum(_)
Sum(s) == IF s = <<>> THEN 0 ELSE Head(s) + Sum(Tail(s))

\* --------------------------------------------------------- check_endpoint
\* What one loop iteration of check_endpoint decides: return a tuple, sleep and
\* `continue`, or let an exception leave the function.
Return(h, s, m) == [kind |-> "return", is_healthy |-> h, status_code |-> s, message |-> m]
Retry == [kind |-> "retry", is_healthy |-> FALSE, status_code |-> 0, message |-> ""]
Raise(e) == [kind |-> "raise", is_healthy |-> FALSE, status_code |-> 0, message |-> e]

CanRetry_NoBound(a) == a < RETRY_ATTEMPTS

CanRetry_Inclusive(a) == a <= RETRY_ATTEMPTS - 1

\* `if attempt < RETRY_ATTEMPTS - 1`
CanRetry(a) == a < RETRY_ATTEMPTS - 1

OnResponse_Only200(a, status_code, expected) ==
    IF status_code = 200
    THEN Return(TRUE, status_code, "Application is UP")
    ELSE IF CanRetry(a)
         THEN Retry
         ELSE Return(FALSE, status_code, "Unexpected status code: " \o ToString(status_code))

\* try body after requests.get returned a response
OnResponse(a, status_code, expected) ==
    IF status_code = expected
    THEN Return(TRUE, status_code, "Application is UP")
    ELSE IF CanRetry(a)
         THEN Retry
         ELSE Return(FALSE, status_code, "Unexpected status code: " \o ToString(status_code))

OnTimeout_RefusedMessage(a) ==
    IF CanRetry(a) THEN Retry ELSE Return(FALSE, 0, "Connection refused")

\* except requests.exceptions.Timeout
OnTimeout(a) ==
    IF CanRetry(a) THEN Retry ELSE Return(FALSE, 0, "Connection timeout")

OnConnectionError_AlwaysRetry(a) == Retry

\* except requests.exceptions.ConnectionError
OnConnectionError(a) ==
    IF CanRetry(a) THEN Retry ELSE Return(FALSE, 0, "Connection refused")

OnException_Uncaught(a, desc) == Raise("Exception")

\* except Exception as e
OnException(a, desc) ==
    IF CanRetry(a) THEN Retry ELSE Return(FALSE, 0, "Error: " \o desc)

\* The statement after the for loop.
FallThrough == Return(FALSE, 0, "Failed after all retries")

\* Effect of one iteration's decision on the thread.  A retry sleeps, then the
\* for statement takes the next value of range(RETRY_ATTEMPTS) or, when the
\* range is exhausted, falls through to the statement after the loop.
Apply(step) ==
    CASE step.kind = "return" ->
            /\ pc' = "returned"
            /\ outcome' = [is_healthy |-> step.is_healthy,
                           status_code |-> step.status_code,
                           message |-> step.message]
            /\ UNCHANGED << attempt, sleeps, crash, exit_code >>
      [] step.kind = "retry" ->
            /\ sleeps' = Append(sleeps, RETRY_DELAY)
            /\ attempt' = attempt + 1
            /\ IF attempt + 1 < RETRY_ATTEMPTS
               THEN pc' = pc /\ outcome' = outcome
               ELSE /\ pc' = "returned"
                    /\ outcome' = [is_healthy |-> FallThrough.is_healthy,
                                   status_code |-> FallThrough.status_code,
                                   message |-> FallThrough.message]
            /\ UNCHANGED << crash, exit_code >>
      [] step.kind = "raise" ->
            /\ pc' = "crashed"
            /\ crash' = step.message
            /\ exit_code' = 1
            /\ UNCHANGED << attempt, sleeps, outcome >>

Line(level, what) == [level |-> level, what |-> what]

AttemptLog_WarnOnlyAtEnd(f, expected) ==
    << Line("info", "attempt") >>
    \o (IF f.kind = "response" /\ f.status_code = expected
        THEN << Line("info", "up") >>
        ELSE IF attempt < RETRY_ATTEMPTS - 1
             THEN <<>>
             ELSE << Line("warning", "failed") >>)

\* The logger calls of one loop iteration: logger.info("Checking ...") before
\* the request, then the one logger call of the branch the result selects.
AttemptLog(f, expected) ==
    << Line("info", "attempt") >>
    \o (CASE f.kind = "response" /\ f.status_code = expected -> << Line("info", "up") >>
          [] f.kind = "response" /\ f.status_code # expected ->
                << Line("warning", "unexpected status") >>
          [] f.kind = "Timeout" -> << Line("warning", "timeout") >>
          [] f.kind = "ConnectionError" -> << Line("warning", "connection error") >>
          [] f.kind = "Exception" -> << Line("error", "error") >>)

\* requests.get(url, timeout=self.timeout, verify=False) with result f
Fetch(f) ==
    /\ pc = "check_endpoint"
    /\ trace' = Append(trace, f)
    /\ fetches' = [fetches EXCEPT ![idx] = @ + 1]
    /\ log' = log \o AttemptLog(f, expected_status)
    /\ UNCHANGED mon_vars
    /\ UNCHANGED << sys_argv, endpoints, idx, results, origin, url, expected_status,
                    is_healthy, results_file, writes >>

check_endpoint_response ==
    \E f \in FetchOutcomes :
        /\ f.kind = "response"
        /\ Fetch(f)
        /\ Apply(OnResponse(attempt, f.status_code, expected_status))

check_endpoint_timeout ==
    \E f \in FetchOutcomes :
        /\ f.kind = "Timeout"
        /\ Fetch(f)
        /\ Apply(OnTimeout(attempt))

check_endpoint_connection_error ==
    \E f \in FetchOutcomes :
        /\ f.kind = "ConnectionError"
        /\ Fetch(f)
        /\ Apply(OnConnectionError(attempt))

check_endpoint_exception ==
    \E f \in FetchOutcomes :
        /\ f.kind = "Exception"
        /\ Fetch(f)
        /\ Apply(OnException(attempt, f.desc))

\* ---------------------------------------------------- check_all_endpoints
EndpointResult(u, o) ==
    [url |-> u,
     status |-> IF o.is_healthy THEN "UP" ELSE "DOWN",
     http_status |-> o.status_code,
     message |-> o.message]

Aggregate_NoUnhealthyCount(r, u, o) ==
    [endpoints |-> Append(r.endpoints, EndpointResult(u, o)),
     overall_status |-> IF o.is_healthy THEN r.overall_status ELSE "DOWN",
     healthy_count |-> IF o.is_healthy THEN r.healthy_count + 1 ELSE r.healthy_count,
     unhealthy_count |-> r.unhealthy_count]

Aggregate_StatusOfLast(r, u, o) ==
    [endpoints |-> Append(r.endpoints, EndpointResult(u, o)),
     overall_status |-> IF o.is_healthy THEN "UP" ELSE "DOWN",
     healthy_count |-> IF o.is_healthy THEN r.healthy_count + 1 ELSE r.healthy_count,
     unhealthy_count |-> IF o.is_healthy THEN r.unhealthy_count ELSE r.unhealthy_count + 1]

Aggregate_Prepend(r, u, o) ==
    [endpoints |-> << EndpointResult(u, o) >> \o r.endpoints,
     overall_status |-> IF o.is_healthy THEN r.overall_status ELSE "DOWN",
     healthy_count |-> IF o.is_healthy THEN r.healthy_count + 1 ELSE r.healthy_count,
     unhealthy_count |-> IF o.is_healthy THEN r.unhealthy_count ELSE r.unhealthy_count + 1]

\* results['endpoints'].append(...) and the counter / overall_status update
Aggregate(r, u, o) ==
    [endpoints |-> Append(r.endpoints, EndpointResult(u, o)),
     overall_status |-> IF o.is_healthy THEN r.overall_status ELSE "DOWN",
     healthy_count |-> IF o.is_healthy THEN r.healthy_count + 1 ELSE r.healthy_count,
     unhealthy_count |-> IF o.is_healthy THEN r.unhealthy_count ELSE r.unhealthy_count + 1]

Skipped_OnlyNone(e) == Get(e, "url", None) = None

\* `url = endpoint.get('url')` ... `if not url:`
Skipped(e) == ~Truthy(Get(e, "url", None))

\* An exception nobody catches: the interpreter prints the traceback and the
\* process ends with status 1.
Uncaught(e) ==
    /\ pc' = "crashed"
    /\ crash' = e
    /\ exit_code' = 1

\* results = {...} at the top of check_all_endpoints
check_all_endpoints_begin ==
    /\ pc = "check_all_endpoints"
    /\ results' = NewReport
    /\ idx' = 1
    /\ pc' = "for_endpoint"
    /\ UNCHANGED mon_vars
    /\ UNCHANGED log
    /\ UNCHANGED << sys_argv, endpoints, origin, url, expected_status, attempt, trace,
                    sleeps, outcome, fetches, is_healthy, results_file, writes,
                    exit_code, crash >>

\* `for endpoint in self.endpoints` over a value that has no iterator
check_all_endpoints_not_iterable ==
    /\ pc = "for_endpoint"
    /\ ~Iterable(endpoints)
    /\ Uncaught("TypeError")
    /\ UNCHANGED mon_vars
    /\ UNCHANGED log
    /\ UNCHANGED << sys_argv, endpoints, idx, results, origin, url, expected_status,
                    attempt, trace, sleeps, outcome, fetches, is_healthy,
                    results_file, writes >>

\* `endpoint.get('url')` on an element that is not a dict
check_all_endpoints_not_dict ==
    /\ pc = "for_endpoint"
    /\ Iterable(endpoints)
    /\ idx <= Len(endpoints.items)
    /\ ~IsDict(endpoints.items[idx])
    /\ Uncaught("AttributeError")
    /\ UNCHANGED mon_vars
    /\ UNCHANGED log
    /\ UNCHANGED << sys_argv, endpoints, idx, results, origin, url, expected_status,
                    attempt, trace, sleeps, outcome, fetches, is_healthy,
                    results_file, writes >>

\* `if not url: ... continue`
check_all_endpoints_skip ==
    /\ pc = "for_endpoint"
    /\ Iterable(endpoints)
    /\ idx <= Len(endpoints.items)
    /\ IsDict(endpoints.items[idx])
    /\ Skipped(endpoints.items[idx])
    /\ idx' = idx + 1
    /\ UNCHANGED mon_vars
    /\ UNCHANGED log
    /\ UNCHANGED << sys_argv, pc, endpoints, results, origin, url, expected_status,
                    attempt, trace, sleeps, outcome, fetches, is_healthy,
                    results_file, writes, exit_code, crash >>

check_all_endpoints_call_KeepAttempt ==
    /\ pc = "for_endpoint"
    /\ Iterable(endpoints)
    /\ idx <= Len(endpoints.items)
    /\ IsDict(endpoints.items[idx])
    /\ ~Skipped(endpoints.items[idx])
    /\ url' = endpoints.items[idx]["url"]
    /\ expected_status' = Get(endpoints.items[idx], "expected_status", DEFAULT_EXPECTED_STATUS)
    /\ attempt' = (IF attempt < RETRY_ATTEMPTS THEN attempt ELSE 0)
    /\ trace' = <<>>
    /\ sleeps' = <<>>
    /\ outcome' = NoOutcome
    /\ log' = <<>>
    /\ pc' = "check_endpoint"
    /\ UNCHANGED mon_vars
    /\ UNCHANGED << sys_argv, endpoints, idx, results, origin, fetches, is_healthy,
                    results_file, writes, exit_code, crash >>

\* self.check_endpoint(url, expected_status): enter the retry loop
check_all_endpoints_call ==
    /\ pc = "for_endpoint"
    /\ Iterable(endpoints)
    /\ idx <= Len(endpoints.items)
    /\ IsDict(endpoints.items[idx])
    /\ ~Skipped(endpoints.items[idx])
    /\ url' = endpoints.items[idx]["url"]
    /\ expected_status' = Get(endpoints.items[idx], "expected_status", DEFAULT_EXPECTED_STATUS)
    /\ attempt' = 0
    /\ trace' = <<>>
    /\ sleeps' = <<>>
    /\ outcome' = NoOutcome
    /\ log' = <<>>
    /\ pc' = "check_endpoint"
    /\ UNCHANGED mon_vars
    /\ UNCHANGED << sys_argv, endpoints, idx, results, origin, fetches, is_healthy,
                    results_file, writes, exit_code, crash >>

\* the rest of the loop body, after check_endpoint returned
check_all_endpoints_record ==
    /\ pc = "returned"
    /\ results' = Aggregate(results, url, outcome)
    /\ origin' = Append(origin, idx)
    /\ idx' = idx + 1
    /\ trace' = <<>>
    /\ sleeps' = <<>>
    /\ log' = <<>>
    /\ pc' = "for_endpoint"
    /\ UNCHANGED mon_vars
    /\ UNCHANGED << sys_argv, endpoints, url, expected_status, attempt, outcome, fetches,
                    is_healthy, results_file, writes, exit_code, crash >>

\* `return results`
check_all_endpoints_return ==
    /\ pc = "for_endpoint"
    /\ Iterable(endpoints)
    /\ idx > Len(endpoints.items)
    /\ pc' = "print_report"
    /\ UNCHANGED mon_vars
    /\ UNCHANGED log
    /\ UNCHANGED << sys_argv, endpoints, idx, results, origin, url, expected_status,
                    attempt, trace, sleeps, outcome, fetches, is_healthy,
                    results_file, writes, exit_code, crash >>

\* ------------------------------------------------------------ print_report
\* `return results['overall_status'] == 'UP'`
print_report ==
    /\ pc = "print_report"
    /\ is_healthy' = (results.overall_status = "UP")
    /\ pc' = "save_results"
    /\ UNCHANGED mon_vars
    /\ UNCHANGED log
    /\ UNCHANGED << sys_argv, endpoints, idx, results, origin, url, expected_status,
                    attempt, trace, sleeps, outcome, fetches, results_file, writes,
                    exit_code, crash >>

\* -------------------------------------------------------------------- main
ParseArgs_IgnoreBadJson(argv) ==
    IF argv.argc > 1 /\ argv.valid_json
    THEN [kind |-> "run", endpoints |-> argv.value]
    ELSE [kind |-> "run", endpoints |-> DefaultEndpoints]

\* the default list, then `if len(sys.argv) > 1: try: json.loads ... except
\* json.JSONDecodeError: sys.exit(1)`
ParseArgs(argv) ==
    IF argv.argc > 1
    THEN IF argv.valid_json
         THEN [kind |-> "run", endpoints |-> argv.value]
         ELSE [kind |-> "exit", endpoints |-> DefaultEndpoints]
    ELSE [kind |-> "run", endpoints |-> DefaultEndpoints]

ExitStatus_AlwaysZero(healthy) == 0

\* `sys.exit(0 if is_healthy else 1)`
ExitStatus(healthy) == IF healthy THEN 0 ELSE 1

\* main up to `checker = ApplicationHealthChecker(endpoints)`
main_parse_args ==
    /\ pc = "main"
    /\ LET p == ParseArgs(sys_argv) IN
         IF p.kind = "exit"
         THEN /\ pc' = "exited"
              /\ exit_code' = 1
              /\ UNCHANGED << endpoints, fetches >>
         ELSE /\ pc' = "check_all_endpoints"
              /\ endpoints' = p.endpoints
              /\ fetches' = [i \in 1..Len(p.endpoints.items) |-> 0]
              /\ UNCHANGED exit_code
    /\ UNCHANGED mon_vars
    /\ UNCHANGED log
    /\ UNCHANGED << sys_argv, idx, results, origin, url, expected_status, attempt,
                    trace, sleeps, outcome, is_healthy, results_file, writes, crash >>

main_save_results_OnlyWhenUp ==
    /\ pc = "save_results"
    /\ IF is_healthy
       THEN /\ results_file' = [state |-> "written", content |-> results]
            /\ writes' = writes + 1
       ELSE UNCHANGED << results_file, writes >>
    /\ pc' = "exit"
    /\ UNCHANGED mon_vars
    /\ UNCHANGED log
    /\ UNCHANGED << sys_argv, endpoints, idx, results, origin, url, expected_status,
                    attempt, trace, sleeps, outcome, fetches, is_healthy, exit_code, crash >>

\* `with open(results_file, 'w') as f: json.dump(results, f, indent=2)`
main_save_results ==
    /\ pc = "save_results"
    /\ results_file' = [state |-> "written", content |-> results]
    /\ writes' = writes + 1
    /\ pc' = "exit"
    /\ UNCHANGED mon_vars
    /\ UNCHANGED log
    /\ UNCHANGED << sys_argv, endpoints, idx, results, origin, url, expected_status,
                    attempt, trace, sleeps, outcome, fetches, is_healthy, exit_code, crash >>

\* the same statement when open or write raises OSError: the file is untouched
\* (open failed) or left truncated (the write failed)
main_save_results_oserror ==
    /\ pc = "save_results"
    /\ \/ results_file' = results_file
       \/ results_file' = [state |-> "truncated", content |-> NoReport]
    /\ Uncaught("OSError")
    /\ UNCHANGED mon_vars
    /\ UNCHANGED log
    /\ UNCHANGED << sys_argv, endpoints, idx, results, origin, url, expected_status,
                    attempt, trace, sleeps, outcome, fetches, is_healthy, writes >>

\* `sys.exit(0 if is_healthy else 1)`
main_exit ==
    /\ pc = "exit"
    /\ exit_code' = ExitStatus(is_healthy)
    /\ pc' = "exited"
    /\ UNCHANGED mon_vars
    /\ UNCHANGED log
    /\ UNCHANGED << sys_argv, endpoints, idx, results, origin, url, expected_status,
                    attempt, trace, sleeps, outcome, fetches, is_healthy, results_file,
                    writes, crash >>

\* ------------------------------------------------ system_health_monitor.py
CPU_THRESHOLD == 80
MEMORY_THRESHOLD == 80
DISK_THRESHOLD == 80
PROCESS_THRESHOLD == 100

\* keys of generate_report's `results` dict, in insertion order
Metrics == << "cpu", "memory", "disk", "processes" >>

Threshold(m) ==
    CASE m = "cpu" -> CPU_THRESHOLD
      [] m = "memory" -> MEMORY_THRESHOLD
      [] m = "disk" -> DISK_THRESHOLD
      [] m = "processes" -> PROCESS_THRESHOLD

\* values psutil may report: just below, at and just above the threshold
SampleValues(m) == { Threshold(m) - 1, Threshold(m), Threshold(m) + 1 }

Exceeds_OrEqual(value, threshold) == value >= threshold

\* `if cpu_percent > CPU_THRESHOLD` and its three siblings
Exceeds(value, threshold) == value > threshold

checker_vars == << sys_argv, endpoints, idx, results, origin, url, expected_status,
                   attempt, trace, sleeps, outcome, fetches, is_healthy, results_file,
                   writes, crash, log >>

\* body of one check_* function: read the metric, compare, return whether it
\* is fine; generate_report stores the result under the metric's key
CheckMetric(m) ==
    /\ \E v \in SampleValues(m) :
          /\ mon_samples' = Append(mon_samples, [metric |-> m, value |-> v])
          /\ mon_results' = Append(mon_results, [metric |-> m, ok |-> ~Exceeds(v, Threshold(m))])
    /\ UNCHANGED << program, mon_error, mon_top_errors, mon_success, mon_failed,
                    exit_code >>
    /\ UNCHANGED checker_vars

check_cpu_usage ==
    /\ pc = "check_cpu"
    /\ CheckMetric("cpu")
    /\ pc' = "check_memory"

check_memory_usage ==
    /\ pc = "check_memory"
    /\ CheckMetric("memory")
    /\ pc' = "check_disk"

check_disk_usage ==
    /\ pc = "check_disk"
    /\ CheckMetric("disk")
    /\ pc' = "check_processes"

check_running_processes ==
    /\ pc = "check_processes"
    /\ CheckMetric("processes")
    /\ pc' = "get_top_processes"

SamplerPcs == { "check_" \o Metrics[i] : i \in DOMAIN Metrics }

\* a psutil call of one of the four check_* functions raises: the exception
\* leaves generate_report and reaches the except clause at the bottom
check_metric_raises ==
    /\ pc \in SamplerPcs
    /\ \E i \in DOMAIN Metrics :
          /\ pc = "check_" \o Metrics[i]
          /\ mon_error' = Metrics[i]
    /\ pc' = "monitor_except"
    /\ UNCHANGED << program, mon_samples, mon_results, mon_top_errors, mon_success,
                    mon_failed, exit_code >>
    /\ UNCHANGED checker_vars

\* get_top_processes: each of its two try blocks catches and logs its error
get_top_processes ==
    /\ pc = "get_top_processes"
    /\ \E n \in 0..2 : mon_top_errors' = n
    /\ pc' = "summary"
    /\ UNCHANGED << program, mon_samples, mon_results, mon_error, mon_success,
                    mon_failed, exit_code >>
    /\ UNCHANGED checker_vars

RECURSIVE FailedNames(_)
\* `[k for k, v in results.items() if not v]`
FailedNames(rs) ==
    IF rs = <<>>
    THEN <<>>
    ELSE (IF Head(rs).ok THEN <<>> ELSE << Head(rs).metric >>) \o FailedNames(Tail(rs))

\* `all_ok = all(results.values())`, the summary lines, `return all_ok`
generate_report_summary ==
    /\ pc = "summary"
    /\ mon_success' = (\A i \in DOMAIN mon_results : mon_results[i].ok)
    /\ mon_failed' = (IF \A i \in DOMAIN mon_results : mon_results[i].ok
                      THEN <<>>
                      ELSE FailedNames(mon_results))
    /\ pc' = "monitor_exit"
    /\ UNCHANGED << program, mon_samples, mon_results, mon_error, mon_top_errors,
                    exit_code >>
    /\ UNCHANGED checker_vars

MonitorStatus_ZeroOnError(raised, success) ==
    IF raised THEN 0 ELSE IF success THEN 0 ELSE 1

\* `sys.exit(0 if success else 1)` in the try body, `sys.exit(1)` in the
\* except clause
MonitorStatus(raised, success) ==
    IF raised THEN 1 ELSE IF success THEN 0 ELSE 1

\* `sys.exit(0 if success else 1)`; SystemExit is not an Exception
monitor_exit ==
    /\ pc = "monitor_exit"
    /\ exit_code' = MonitorStatus(FALSE, mon_success)
    /\ pc' = "monitor_exited"
    /\ UNCHANGED mon_vars
    /\ UNCHANGED checker_vars

\* `except Exception as e: logger.error(...); sys.exit(1)`
monitor_except ==
    /\ pc = "monitor_except"
    /\ exit_code' = MonitorStatus(TRUE, mon_success)
    /\ pc' = "monitor_exited"
    /\ UNCHANGED mon_vars
    /\ UNCHANGED checker_vars

\* ----------------------------------------------------------- specification
Init ==
    /\ \/ /\ program = "app_health_checker"
          /\ sys_argv \in ArgvInputs
          /\ pc = "main"
       \/ /\ program = "system_health_monitor"
          /\ sys_argv \in { a \in ArgvInputs : a.argc = 1 }
          /\ pc = "check_cpu"
    /\ endpoints = DefaultEndpoints
    /\ idx = 0
    /\ results = NoReport
    /\ origin = <<>>
    /\ url = None
    /\ expected_status = DEFAULT_EXPECTED_STATUS
    /\ attempt = 0
    /\ trace = <<>>
    /\ sleeps = <<>>
    /\ outcome = NoOutcome
    /\ fetches = <<>>
    /\ is_healthy = FALSE
    /\ results_file = [state |-> "stale", content |-> NoReport]
    /\ writes = 0
    /\ exit_code = Running
    /\ crash = "none"
    /\ log = <<>>
    /\ mon_samples = <<>>
    /\ mon_results = <<>>
    /\ mon_error = "none"
    /\ mon_top_errors = 0
    /\ mon_success = FALSE
    /\ mon_failed = <<>>

Next ==
    \/ main_parse_args
    \/ check_all_endpoints_begin
    \/ check_all_endpoints_not_iterable
    \/ check_all_endpoints_not_dict
    \/ check_all_endpoints_skip
    \/ check_all_endpoints_call
    \/ check_endpoint_response
    \/ check_endpoint_timeout
    \/ check_endpoint_connection_error
    \/ check_endpoint_exception
    \/ check_all_endpoints_record
    \/ check_all_endpoints_return
    \/ print_report
    \/ main_save_results
    \/ main_save_results_oserror
    \/ main_exit
    \/ check_cpu_usage
    \/ check_memory_usage
    \/ check_disk_usage
    \/ check_running_processes
    \/ check_metric_raises
    \/ get_top_processes
    \/ generate_report_summary
    \/ monitor_exit
    \/ monitor_except

Spec == Init /\ [][Next]_vars

TypeOK ==
    /\ pc \in {"main", "check_all_endpoints", "for_endpoint", "check_endpoint", "returned",
               "print_report", "save_results", "exit", "exited", "crashed",
               "check_cpu", "check_memory", "check_disk", "check_processes",
               "get_top_processes", "summary", "monitor_exit", "monitor_except",
               "monitor_exited"}
    /\ exit_code \in {Running, 0, 1}
    /\ attempt \in 0..RETRY_ATTEMPTS
    /\ Len(trace) <= RETRY_ATTEMPTS

\* ------------------------------------------------------ shared vocabulary
\* check_all_endpoints has returned its report to main.
ReportReturned ==
    \/ pc \in {"print_report", "save_results", "exit"}
    \/ pc = "exited" /\ results # NoReport
    \/ pc = "crashed" /\ crash = "OSError"

\* The claims' own reading of "url is absent or empty": the key is missing, or
\* its value is null or the empty string.
UrlAbsentOrEmpty(e) ==
    \/ "url" \notin DOMAIN e
    \/ e["url"] = None
    \/ e["url"] = ""

ListOfObjects(v) ==
    /\ v.py_type = "list"
    /\ \A i \in DOMAIN v.items : IsDict(v.items[i])

Malformed == sys_argv.argc > 1 /\ ~sys_argv.valid_json

IllFormed == sys_argv.argc > 1 /\ sys_argv.valid_json /\ ~ListOfObjects(sys_argv.value)

InputAccepted == sys_argv.argc = 1 \/ (sys_argv.valid_json /\ ListOfObjects(sys_argv.value))

RECURSIVE KeptUrls(_)
KeptUrls(items) ==
    IF items = <<>>
    THEN <<>>
    ELSE (IF UrlAbsentOrEmpty(Head(items)) THEN <<>> ELSE << Head(items)["url"] >>)
         \o KeptUrls(Tail(items))

RECURSIVE ReportUrls(_)
ReportUrls(rs) ==
    IF rs = <<>> THEN <<>> ELSE << Head(rs).url >> \o ReportUrls(Tail(rs))

RECURSIVE CountKept(_)
CountKept(items) ==
    IF items = <<>>
    THEN 0
    ELSE (IF IsDict(Head(items)) /\ ~UrlAbsentOrEmpty(Head(items)) THEN 1 ELSE 0)
         + CountKept(Tail(items))

SuccessAt(k) == trace[k].kind = "response" /\ trace[k].status_code = expected_status

\* ------------------------------------------------------------------ claims

\* C1: at every point after an endpoint has been processed, and at return,
\* healthy_count + unhealthy_count equals the number of entries of
\* report.endpoints.
C1_CountsMatchEndpoints ==
    results.healthy_count + results.unhealthy_count = Len(results.endpoints)

C1_Witness ==
    /\ pc = "print_report"
    /\ Len(results.endpoints) = 2
    /\ results.healthy_count = 1
    /\ results.unhealthy_count = 1

\* C2: in the report check_all_endpoints returns, overall_status is DOWN exactly
\* when unhealthy_count > 0; a report with no entries (empty input, or every
\* entry skipped) is UP.
C2_DownIffUnhealthy ==
    ReportReturned =>
        /\ results.overall_status \in {"UP", "DOWN"}
        /\ (results.overall_status = "DOWN" <=> results.unhealthy_count > 0)
        /\ (results.endpoints = <<>> => results.overall_status = "UP")

C2_Witness ==
    /\ ReportReturned
    /\ Len(results.endpoints) = 2
    /\ results.endpoints[1].status = "DOWN"
    /\ results.endpoints[2].status = "UP"
    /\ results.overall_status = "DOWN"

\* C3: check_endpoint returns after at least 1 and at most RETRY_ATTEMPTS
\* fetches whatever each fetch does, no exception of a fetch leaves it, and the
\* whole run issues at most RETRY_ATTEMPTS fetches per non-skipped endpoint and
\* none for the others.
C3_BoundedAttemptsNoPropagation ==
    /\ crash \notin {"Timeout", "ConnectionError", "Exception"}
    /\ pc = "returned" =>
          /\ Len(trace) \in 1..RETRY_ATTEMPTS
          /\ fetches[idx] = Len(trace)
    /\ pc = "check_endpoint" =>
          /\ Len(trace) < RETRY_ATTEMPTS
          /\ Len(trace) = attempt
          /\ fetches[idx] = Len(trace)
    /\ \A i \in DOMAIN fetches :
          /\ fetches[i] <= RETRY_ATTEMPTS
          /\ (~IsDict(endpoints.items[i]) \/ UrlAbsentOrEmpty(endpoints.items[i]))
                => fetches[i] = 0
    /\ Sum(fetches) <= RETRY_ATTEMPTS * CountKept(endpoints.items)

C3_Witness ==
    /\ pc = "returned"
    /\ Len(trace) = RETRY_ATTEMPTS
    /\ trace[1].kind = "Timeout"
    /\ trace[2].kind = "ConnectionError"
    /\ trace[3].kind = "Exception"
    /\ ~outcome.is_healthy

\* C4: when attempt k is the first whose fetch returns the expected status,
\* check_endpoint has returned (True, that status, "Application is UP") after
\* exactly k fetches and k-1 sleeps of RETRY_DELAY, and no attempt follows.
C4_FirstSuccessReturns ==
    pc \in {"check_endpoint", "returned"} =>
        \A k \in 1..Len(trace) :
            SuccessAt(k) =>
                /\ pc = "returned"
                /\ k = Len(trace)
                /\ fetches[idx] = k
                /\ outcome = [is_healthy |-> TRUE,
                              status_code |-> trace[k].status_code,
                              message |-> "Application is UP"]
                /\ Len(sleeps) = k - 1
                /\ \A i \in 1..Len(sleeps) : sleeps[i] = RETRY_DELAY

C4_Witness ==
    /\ pc = "returned"
    /\ expected_status = 200
    /\ Len(trace) = 3
    /\ trace[1].kind = "response" /\ trace[1].status_code = 500
    /\ trace[2].kind = "response" /\ trace[2].status_code = 500
    /\ trace[3].kind = "response" /\ trace[3].status_code = 200
    /\ outcome.is_healthy
    /\ outcome.status_code = 200
    /\ Len(sleeps) = 2

\* C5: a call whose every fetch raised Timeout returns (False, 0, "Connection
\* timeout") after exactly RETRY_ATTEMPTS fetches and RETRY_ATTEMPTS - 1 sleeps
\* of RETRY_DELAY.
C5_AllTimeouts ==
    (pc = "returned" /\ \A k \in 1..Len(trace) : trace[k].kind = "Timeout") =>
        /\ Len(trace) = RETRY_ATTEMPTS
        /\ fetches[idx] = RETRY_ATTEMPTS
        /\ outcome = [is_healthy |-> FALSE, status_code |-> 0,
                      message |-> "Connection timeout"]
        /\ Len(sleeps) = RETRY_ATTEMPTS - 1
        /\ \A i \in 1..Len(sleeps) : sleeps[i] = RETRY_DELAY

C5_Witness ==
    /\ pc = "returned"
    /\ Len(trace) = 3
    /\ \A k \in 1..3 : trace[k].kind = "Timeout"
    /\ outcome.message = "Connection timeout"
    /\ sleeps = << RETRY_DELAY, RETRY_DELAY >>

\* C6: an input endpoint whose url is absent or empty is never fetched and never
\* appears in report.endpoints, and the step that passes over it leaves the
\* report (entries, counters, overall_status) and the fetch counts unchanged.
C6_SkippedNeverFetchedNorReported ==
    \A i \in DOMAIN fetches :
        (IsDict(endpoints.items[i]) /\ UrlAbsentOrEmpty(endpoints.items[i])) =>
            /\ fetches[i] = 0
            /\ \A j \in DOMAIN origin : origin[j] # i

C6_SkipLeavesReport ==
    ( /\ pc = "for_endpoint"
      /\ idx \in DOMAIN fetches
      /\ IsDict(endpoints.items[idx])
      /\ UrlAbsentOrEmpty(endpoints.items[idx]) )
    => ( /\ results' = results
         /\ fetches' = fetches
         /\ origin' = origin
         /\ pc' = "for_endpoint"
         /\ idx' = idx + 1 )

C6_Skipped == []C6_SkippedNeverFetchedNorReported /\ [][C6_SkipLeavesReport]_vars

C6_Witness ==
    /\ ReportReturned
    /\ Len(endpoints.items) = 2
    /\ "url" \notin DOMAIN endpoints.items[1]
    /\ endpoints.items[2]["url"] = ""
    /\ results = NewReport
    /\ Sum(fetches) = 0

\* C7: the urls of report.endpoints are the urls of the input entries that were
\* not skipped, in input order, one result per such entry, duplicates kept.
C7_ReportOrderIsInputOrder ==
    ReportReturned =>
        /\ ReportUrls(results.endpoints) = KeptUrls(endpoints.items)
        /\ Len(origin) = Len(results.endpoints)
        /\ \A j \in DOMAIN origin :
              /\ results.endpoints[j].url = endpoints.items[origin[j]]["url"]
              /\ \A h \in DOMAIN origin : h < j => origin[h] < origin[j]

C7_Witness ==
    /\ ReportReturned
    /\ Len(endpoints.items) = 2
    /\ ReportUrls(results.endpoints) = << "http://a", "http://a" >>

\* C8: a run whose input is accepted and that reaches sys.exit after the check
\* cycle exits 0 exactly when overall_status is UP, i.e. when every reported
\* endpoint is UP, and 1 otherwise.  With endpoints a (default expected status)
\* and b (expected 201) both answering 200, the report has 1 healthy and 1
\* unhealthy endpoint, is DOWN, and the exit code is 1.
C8_ExitCodeFollowsOverallStatus ==
    (pc = "exited" /\ InputAccepted) =>
        /\ exit_code = (IF results.overall_status = "UP" THEN 0 ELSE 1)
        /\ (results.overall_status = "UP"
              <=> \A j \in DOMAIN results.endpoints : results.endpoints[j].status = "UP")
        /\ ( /\ endpoints.items = << [url |-> "http://a"],
                                     [url |-> "http://b", expected_status |-> 201] >>
             /\ results.endpoints[1].http_status = 200
             /\ results.endpoints[2].http_status = 200 )
           => /\ results.healthy_count = 1
              /\ results.unhealthy_count = 1
              /\ results.overall_status = "DOWN"
              /\ exit_code = 1

C8_Witness ==
    /\ pc = "exited"
    /\ endpoints.items = << [url |-> "http://a"],
                            [url |-> "http://b", expected_status |-> 201] >>
    /\ fetches = << 1, 3 >>
    /\ results.endpoints[1].http_status = 200
    /\ results.endpoints[2].http_status = 200
    /\ results.endpoints[2].message = "Unexpected status code: 200"
    /\ results.overall_status = "DOWN"
    /\ exit_code = 1

\* C9: when the argument is present and is not parseable JSON, the process exits
\* with code 1, no fetch is issued, no report is built and latest_results.json
\* is not written.
C9_BadJsonExitsOne ==
    Malformed =>
        /\ pc \in {"main", "exited"}
        /\ pc = "exited" => exit_code = 1
        /\ exit_code # 0
        /\ Sum(fetches) = 0
        /\ results = NoReport
        /\ writes = 0
        /\ results_file.state = "stale"

C9_Witness ==
    /\ Malformed
    /\ pc = "exited"
    /\ exit_code = 1
    /\ writes = 0

\* C10: when the argument parses as JSON but is not an array of objects, the
\* process exits with code 1 at once: no endpoint is fetched, no report is
\* written, and exit code 0 is never produced.
C10_IllFormedExitsImmediately ==
    IllFormed =>
        /\ Sum(fetches) = 0
        /\ writes = 0
        /\ results_file.state = "stale"
        /\ exit_code # 0
        /\ pc \in {"exited", "crashed"} => exit_code = 1

\* C11: in both programs a run in which an unexpected error was raised (the
\* endpoint checker: while iterating the endpoints or writing the results
\* file; the system monitor: in one of the four metric samplers) ends with
\* exit code 1 and never produces exit code 0.
C11_ErrorExitsOne ==
    /\ crash # "none" =>
          /\ pc = "crashed"
          /\ exit_code = 1
    /\ mon_error # "none" =>
          /\ pc \in {"monitor_except", "monitor_exited"}
          /\ exit_code # 0
          /\ pc = "monitor_exited" => exit_code = 1

C11_Witness ==
    /\ program = "system_health_monitor"
    /\ pc = "monitor_exited"
    /\ mon_error = "disk"
    /\ Len(mon_results) = 2
    /\ \A i \in DOMAIN mon_results : mon_results[i].ok
    /\ exit_code = 1

\* C12: within one check_all_endpoints run overall_status starts as UP, is DOWN
\* exactly from the first endpoint recorded as DOWN, and once DOWN stays DOWN.
C12_DownWhenSomeEndpointDown ==
    results.overall_status = "DOWN"
        <=> \E j \in DOMAIN results.endpoints : results.endpoints[j].status = "DOWN"

C12_StartsUp == pc = "check_all_endpoints" => results'.overall_status = "UP"

C12_DownStaysDown == results.overall_status = "DOWN" => results'.overall_status = "DOWN"

C12_OneWayDown ==
    /\ []C12_DownWhenSomeEndpointDown
    /\ [][C12_StartsUp]_vars
    /\ [][C12_DownStaysDown]_vars

C12_Witness ==
    /\ pc = "for_endpoint"
    /\ idx = 3
    /\ Len(results.endpoints) = 2
    /\ results.endpoints[1].status = "DOWN"
    /\ results.endpoints[2].status = "UP"
    /\ results.healthy_count = 1
    /\ results.overall_status = "DOWN"

\* The check cycle of the endpoint checker has completed on accepted input.
CycleCompleted ==
    /\ program = "app_health_checker"
    /\ InputAccepted
    /\ ReportReturned

C14_SleepsAtRest ==
    /\ pc = "returned" => Len(sleeps) = Len(trace) - 1
    /\ pc = "check_endpoint" =>
          /\ Len(sleeps) = Len(trace)
          /\ Len(trace) < RETRY_ATTEMPTS
    /\ \A i \in DOMAIN sleeps : sleeps[i] = RETRY_DELAY

C14_SleepOnlyBeforeRetry ==
    Len(sleeps') > Len(sleeps) =>
        /\ Len(sleeps') = Len(sleeps) + 1
        /\ Len(trace') = Len(trace) + 1
        /\ ~(trace'[Len(trace')].kind = "response"
             /\ trace'[Len(trace')].status_code = expected_status)
        /\ Len(trace') < RETRY_ATTEMPTS
        /\ pc' = "check_endpoint"

C14_SleepsAreFetchesMinusOne == []C14_SleepsAtRest /\ [][C14_SleepOnlyBeforeRetry]_vars

C14_Witness ==
    /\ pc = "returned"
    /\ Len(trace) = 3
    /\ Len(sleeps) = 2
    /\ trace[3].kind = "ConnectionError"

\* C15: when every attempt failed, the returned tuple depends on the last
\* attempt only: Timeout -> (0, "Connection timeout"), connection error ->
\* (0, "Connection refused"), other error -> (0, "Error: <description>"),
\* wrong status s -> (s, "Unexpected status code: s"); so http_status is 0
\* exactly when the last attempt got no response.
C15_FailureFromLastAttempt ==
    (pc = "returned" /\ ~outcome.is_healthy) =>
        LET last == trace[Len(trace)] IN
        /\ Len(trace) = RETRY_ATTEMPTS
        /\ last.kind = "Timeout" =>
              outcome.status_code = 0 /\ outcome.message = "Connection timeout"
        /\ last.kind = "ConnectionError" =>
              outcome.status_code = 0 /\ outcome.message = "Connection refused"
        /\ last.kind = "Exception" =>
              outcome.status_code = 0 /\ outcome.message = "Error: " \o last.desc
        /\ last.kind = "response" =>
              /\ outcome.status_code = last.status_code
              /\ outcome.message = "Unexpected status code: " \o ToString(last.status_code)
        /\ (outcome.status_code = 0 <=> last.kind # "response")

C15_Witness ==
    /\ pc = "returned"
    /\ Len(trace) = 3
    /\ trace[1].kind = "response" /\ trace[1].status_code = 500
    /\ trace[2].kind = "ConnectionError"
    /\ trace[3].kind = "Timeout"
    /\ outcome = [is_healthy |-> FALSE, status_code |-> 0, message |-> "Connection timeout"]

Recorded(h) == \E j \in DOMAIN origin : origin[j] = h

\* C16: endpoints are checked one at a time in input order: an endpoint has
\* been fetched only if every earlier non-skipped endpoint has its result in
\* the report, only the endpoint at the loop position is in progress, and each
\* call counts its attempts from zero, so a failing call always gets
\* RETRY_ATTEMPTS fetches.
C16_SequentialFreshBudget ==
    /\ \A i \in DOMAIN fetches :
          fetches[i] > 0 =>
              /\ \A h \in 1..(i - 1) :
                    (IsDict(endpoints.items[h]) /\ ~UrlAbsentOrEmpty(endpoints.items[h]))
                        => Recorded(h)
              /\ ~Recorded(i) => (i = idx /\ pc \in {"check_endpoint", "returned"})
    /\ pc = "check_endpoint" => attempt = fetches[idx]
    /\ (pc = "returned" /\ ~outcome.is_healthy) => fetches[idx] = RETRY_ATTEMPTS
    /\ \A j \in DOMAIN origin :
          results.endpoints[j].status = "DOWN" => fetches[origin[j]] = RETRY_ATTEMPTS

C16_Witness ==
    /\ pc = "returned"
    /\ idx = 2
    /\ fetches = << 3, 3 >>
    /\ origin = << 1 >>
    /\ results.endpoints[1].status = "DOWN"
    /\ ~outcome.is_healthy

\* C17 as stated: a check_endpoint call that used a attempts has emitted a + 1
\* log lines.
C17_AttemptsPlusOneLines ==
    pc = "returned" => Len(log) = Len(trace) + 1

\* C17 amended: every attempt emits its informational line and exactly one
\* more line for its own result, whether or not it is the last attempt: info
\* for the success, a warning for a wrong status, a timeout or a connection
\* error, an error-level line for any other exception.  There is no separate
\* line for the terminal outcome, so a call that used a attempts emits 2a
\* lines.
C17_TwoLinesPerAttempt ==
    pc \in {"check_endpoint", "returned"} =>
        /\ Len(log) = 2 * Len(trace)
        /\ \A k \in DOMAIN trace :
              /\ log[2 * k - 1] = [level |-> "info", what |-> "attempt"]
              /\ log[2 * k].level =
                    (IF trace[k].kind = "response" /\ trace[k].status_code = expected_status
                     THEN "info"
                     ELSE IF trace[k].kind = "Exception" THEN "error" ELSE "warning")

C17_Witness ==
    /\ pc = "returned"
    /\ Len(trace) = 3
    /\ trace[1].kind = "Timeout"
    /\ trace[2].kind = "response" /\ trace[2].status_code = 500
    /\ trace[3].kind = "response" /\ trace[3].status_code = 200
    /\ outcome.is_healthy
    /\ Len(log) = 6
    /\ log[2].level = "warning"
    /\ log[4].level = "warning"
    /\ log[6].level = "info"

\* The thresholds as C18 names them.
StatedThreshold(m) == IF m = "processes" THEN 100 ELSE 80

MonitorReported ==
    /\ program = "system_health_monitor"
    /\ pc \in {"monitor_exit", "monitor_exited"}
    /\ mon_error = "none"

\* C18: the system monitor evaluates cpu, memory, disk and processes on every
\* run, in that order and without short-circuit; a metric is unhealthy exactly
\* when its value is strictly above its threshold (80, 80, 80, 100);
\* generate_report returns true, and the process exits 0, exactly when no
\* metric is unhealthy; the summary lists exactly the unhealthy metrics.
C18_MonitorThresholds ==
    /\ Len(mon_results) = Len(mon_samples)
    /\ \A i \in DOMAIN mon_results :
          /\ mon_results[i].metric = Metrics[i]
          /\ mon_samples[i].metric = Metrics[i]
          /\ mon_results[i].ok = ~(mon_samples[i].value > StatedThreshold(Metrics[i]))
    /\ (program = "system_health_monitor" /\ mon_error = "none"
          /\ pc \in {"get_top_processes", "summary", "monitor_exit", "monitor_exited"})
        => Len(mon_results) = 4
    /\ MonitorReported =>
          /\ mon_success = (\A i \in DOMAIN mon_samples :
                               mon_samples[i].value <= StatedThreshold(Metrics[i]))
          /\ { mon_failed[j] : j \in DOMAIN mon_failed }
                = { Metrics[i] : i \in { n \in DOMAIN mon_samples :
                                           mon_samples[n].value > StatedThreshold(Metrics[n]) } }
          /\ Len(mon_failed) = Cardinality({ mon_failed[j] : j \in DOMAIN mon_failed })
    /\ (MonitorReported /\ pc = "monitor_exited") =>
          exit_code = (IF \A i \in DOMAIN mon_samples :
                             mon_samples[i].value <= StatedThreshold(Metrics[i])
                       THEN 0 ELSE 1)

C18_Witness ==
    /\ pc = "monitor_exited"
    /\ mon_error = "none"
    /\ Len(mon_samples) = 4
    /\ mon_samples[1].value = 81
    /\ mon_samples[2].value = 80
    /\ mon_samples[3].value = 79
    /\ mon_samples[4].value = 101
    /\ mon_failed = << "cpu", "processes" >>
    /\ exit_code = 1

ReturnMessages ==
    { "Application is UP", "Connection timeout", "Connection refused" }
    \cup { "Unexpected status code: " \o ToString(st) : st \in Statuses }
    \cup { "Error: " \o d : d \in Descriptions }

\* C19: the statement after the retry loop is never reached: every call
\* returns from inside the loop, with one of the five messages, and the loop
\* variable never runs past the last value of range(RETRY_ATTEMPTS).
C19_FallThroughUnreachable ==
    /\ attempt < RETRY_ATTEMPTS
    /\ pc = "returned" =>
          /\ outcome.message # "Failed after all retries"
          /\ outcome.message \in ReturnMessages

C19_Witness ==
    /\ pc = "returned"
    /\ Len(trace) = RETRY_ATTEMPTS
    /\ attempt = RETRY_ATTEMPTS - 1
    /\ outcome.message = "Connection refused"

====
